---- MODULE Spec2Model ----
(***************************************************************************)
(* A model of the UESTC SDK application facade (src/src/application.ts)    *)
(* and of the helpers it drives.  Application keeps one currentUser        *)
(* reference and delegates to four injected helpers: the Cacher (user      *)
(* cache and record cache), the Fetcher (live search), the Seeker (offline *)
(* search) and the User model (confirm()).  The helpers' own sources are   *)
(* not part of src/; they are modelled from the written specification.     *)
(*                                                                         *)
(* Observables are modelled by what a subscriber can see of them: the      *)
(* arrays emitted so far and the terminal notification (completed/error).  *)
(* One call slot (inv) holds the observable of the search or verify call   *)
(* the caller is currently working with.                                   *)
(***************************************************************************)
EXTENDS Integers, Sequences, FiniteSets, TLC

VARIABLES
    users,          \* cacher.users: student id -> User reference, or UNDEFINED
    heap,           \* every User object made by userFactory.$new, by reference
    currentUser,    \* Application.currentUser: a User reference or NULL
    cache,          \* record cache: kind -> cached entities in insertion order
    inv,            \* the call slot: the observable returned by the last call
    lastRegistered, \* history: id -> the reference register(id, _) returned last
    enc             \* the Encoder's user, its last call and the result; for
                    \* getSemester the call before it as well

vars == <<users, heap, currentUser, cache, inv, lastRegistered, enc>>

----------------------------------------------------------------------------
(* Bounds of the model *)

MaxUsers == 2       \* User objects created by register in one run
MaxEntity == 2      \* entities (courses, people) known to the remote portal
MaxOffset == 4      \* largest grade-relative year offset tried
GradeSpread == 2    \* grades tried around the fixture grade

(* Values of the program *)

NULL == 0           \* JavaScript null: no user, no error
UNDEFINED == -1     \* a missing property of cacher.users
AuthorizationRequired == 401
NetworkFailure == 500   \* opaque error passed through from the Fetcher

Ids == {"2012019050020", "2012019050021"}
Passwords == {"811073"}
Kinds == {"courses", "people"}
Entities == 1..MaxEntity
EmptyOption == 0
Options == {EmptyOption} \cup Entities

----------------------------------------------------------------------------
(* Helpers of the facade *)

\* JavaScript truthiness of a cache slot or of currentUser
Truthy(v) == v # NULL /\ v # UNDEFINED

\* isUserExist(): !!this.currentUser
IsUserExist == Truthy(currentUser)

\* one(id): cacher.users[id] || null
One(id) == IF Truthy(users[id]) THEN users[id] ELSE NULL

\* constructor: _.find(cacher.users, user => user.isConfirmed) || null
FindConfirmed(u, h) ==
    LET hit == {id \in DOMAIN u : Truthy(u[id]) /\ h[u[id]].isConfirmed}
    IN  IF hit = {} THEN NULL ELSE u[CHOOSE id \in hit : TRUE]

\* userFactory.$new(id, password): a fresh, unconfirmed User
NewUser(id, password) ==
    [id |-> id, password |-> password, isConfirmed |-> FALSE, confirm |-> "none"]

\* cacher.users[id] = user
CachePutEvictOthers(u, id, user) == [i \in DOMAIN u |-> IF i = id THEN user ELSE UNDEFINED]
CachePutIfAbsent(u, id, user) == IF Truthy(u[id]) THEN u ELSE [u EXCEPT ![id] = user]
CachePut(u, id, user) == [u EXCEPT ![id] = user]

\* register()'s subscriber, () => this.currentUser = user, runs on every value
\* confirm() emits; subscribe() is given no error handler
OnConfirmNext(current, user) == user
OnConfirmError(current, user) == current

----------------------------------------------------------------------------
(* Record cache, Seeker and Fetcher *)

Matches(e, option) == option = EmptyOption \/ e = option

\* seeker.searchForCourses(option) / seeker.searchForPeople(option): the cached
\* entities of the kind that satisfy the option, in insertion order
SeekerSearch(kind, option) == SelectSeq(cache[kind], LAMBDA e : Matches(e, option))

RECURSIVE Ascending(_)
Ascending(S) ==
    IF S = {} THEN <<>>
    ELSE LET m == CHOOSE x \in S : \A y \in S : x <= y
         IN  <<m>> \o Ascending(S \ {m})

Range(s) == {s[i] : i \in 1..Len(s)}

\* what a successful fetcher.searchForCourses(option) may emit: some of the
\* portal's entities that satisfy the option
FetcherResults(option) ==
    {Ascending(S) : S \in SUBSET {e \in Entities : Matches(e, option)}}

\* a successful live search populates the record cache: entities not yet
\* cached are appended, cached ones stay where they are
WriteThrough(cached, result) ==
    cached \o SelectSeq(result, LAMBDA e : e \notin Range(cached))

----------------------------------------------------------------------------
(* Observables built by the facade *)

IdleInv ==
    [mode |-> "none", kind |-> "none", option |-> EmptyOption,
     userAtCall |-> FALSE, fetcherCalls |-> 0, seekerCalls |-> 0,
     fetcher |-> "none", preFailed |-> FALSE, fallback |-> FALSE,
     status |-> "none", error |-> NULL, emitted |-> <<>>,
     id |-> "", verified |-> "none"]


\* the option handed on in fetcher.searchForX(option)
FetcherOptionDropped(option) == EmptyOption
FetcherOption(option) == option

\* the option handed on in seeker.searchForX(option)
SeekerOptionDropped(option) == EmptyOption
SeekerOption(option) == option

\* Observable.create(observer => { if (!isUserExist()) observer.onError(401) }):
\* the source never calls onCompleted
CreateCompletes == FALSE

\* a.merge(b) completes once both sources have completed
MergeCompleted(first, second) == first /\ second

\* subscribing to the Seeker's observable: one array, then completion
SeekerEmit(i) ==
    [i EXCEPT !.emitted = Append(@, SeekerSearch(i.kind, SeekerOption(i.option))),
              !.status = "completed"]

\* searchForX(option).catch(searchForXInCache(option)): an error of the live
\* observable switches the subscription to the Seeker's observable
FallbackFailsOnEmpty(i) ==
    IF SeekerSearch(i.kind, SeekerOption(i.option)) = <<>>
    THEN [i EXCEPT !.fallback = TRUE, !.status = "error", !.error = NetworkFailure]
    ELSE SeekerEmit([i EXCEPT !.fallback = TRUE])
Fallback(i) == SeekerEmit([i EXCEPT !.fallback = TRUE])

\* an error notification of the live observable, as the subscriber sees it
OnError(i, e) ==
    IF i.mode = "withCache" THEN Fallback(i)
    ELSE [i EXCEPT !.status = "error", !.error = e]

----------------------------------------------------------------------------
(* Encoder *)

FixtureGrade == 2012            \* getGrade() of the user in the Encoder test
FixtureSemesterId == 13         \* the id the test expects for 2012, semester 1
SemesterCardinality == 2        \* semesters per academic year
BaselineYear == 2006            \* (2012 - 2006) * 2 + 1 = 13
AbsoluteYearThreshold == 1000   \* a first argument this large is a calendar year

Grades == (FixtureGrade - GradeSpread)..(FixtureGrade + GradeSpread)
Offsets == 1..MaxOffset
Semesters == 1..SemesterCardinality
YearArguments ==
    Offsets \cup ((FixtureGrade - GradeSpread)..(FixtureGrade + GradeSpread + MaxOffset))

\* Encoder.getSemester(yearOrGradeRelative, semesterNumber, userLike)
GetSemesterNoStride(year, semester, grade) ==
    LET resolved == IF year >= AbsoluteYearThreshold THEN year ELSE grade + (year - 1)
    IN  (resolved - BaselineYear) + semester
GetSemesterOffByOne(year, semester, grade) ==
    LET resolved == IF year >= AbsoluteYearThreshold THEN year ELSE grade + year
    IN  (resolved - BaselineYear) * SemesterCardinality + semester
GetSemester(year, semester, grade) ==
    LET resolved == IF year >= AbsoluteYearThreshold THEN year ELSE grade + (year - 1)
    IN  (resolved - BaselineYear) * SemesterCardinality + semester

FixtureSemesterCount == 8      \* the length the test expects of getAllSemesters
ProgramYears == 4               \* one full program: 8 semesters of the fixture

\* the current dates tried: before the grade year, within the program, after it
CurrentYears ==
    (FixtureGrade - GradeSpread - 1)..(FixtureGrade + GradeSpread + ProgramYears + 1)

\* Encoder.getAllSemesters(user): the ids from the user's grade year to the
\* present, year by year and semester by semester, at most one full program
GetAllSemestersUnclamped(grade, currentYear) ==
    LET elapsed == currentYear - grade
        years == IF elapsed < 0 THEN 0 ELSE elapsed + 1
    IN  [i \in 1..(years * SemesterCardinality) |->
            GetSemester(((i - 1) \div SemesterCardinality) + 1,
                        ((i - 1) % SemesterCardinality) + 1, grade)]
GetAllSemesters(grade, currentYear) ==
    LET elapsed == currentYear - grade
        years == IF elapsed < 0 THEN 0
                 ELSE IF elapsed > ProgramYears THEN ProgramYears ELSE elapsed
    IN  [i \in 1..(years * SemesterCardinality) |->
            GetSemester(((i - 1) \div SemesterCardinality) + 1,
                        ((i - 1) % SemesterCardinality) + 1, grade)]

\* The weekday labels of the portal, as sequences of code points
Xing == 26143   \* U+661F
Qi == 26399     \* U+671F
Yi == 19968     \* U+4E00, Monday's numeral
Er == 20108     \* U+4E8C
San == 19977    \* U+4E09
Si == 22235     \* U+56DB
Wu == 20116     \* U+4E94
Liu == 20845    \* U+516D
Ri == 26085     \* U+65E5, Sunday

WeekdayLabels ==
    << <<Xing, Qi, Yi>>, <<Xing, Qi, Er>>, <<Xing, Qi, San>>, <<Xing, Qi, Si>>,
       <<Xing, Qi, Wu>>, <<Xing, Qi, Liu>>, <<Xing, Qi, Ri>> >>

\* labels outside the vocabulary: the colloquial Sunday (U+5929), the empty
\* string, a bare prefix, a bare numeral, a label with a trailing character,
\* one with its characters swapped, and "Mon"
OtherLabels ==
    { <<Xing, Qi, 22825>>, <<>>, <<Xing, Qi>>, <<Yi>>, <<Xing, Qi, Yi, Yi>>,
      <<Qi, Xing, Yi>>, <<77, 111, 110>> }

DayLabels == {WeekdayLabels[i] : i \in 1..Len(WeekdayLabels)} \cup OtherLabels

NoValue == [returned |-> FALSE, value |-> 0, error |-> "none"]

\* Encoder.parseDayofWeek(label): the label's place in the vocabulary, and
\* UnknownLabel for anything else
ParseDayofWeekDefaultsToZero(label) ==
    LET hit == {i \in 1..Len(WeekdayLabels) : WeekdayLabels[i] = label}
    IN  IF hit = {} THEN [returned |-> TRUE, value |-> 0, error |-> "none"]
        ELSE [returned |-> TRUE, value |-> CHOOSE i \in hit : TRUE, error |-> "none"]
ParseDayofWeek(label) ==
    LET hit == {i \in 1..Len(WeekdayLabels) : WeekdayLabels[i] = label}
    IN  IF hit = {} THEN [returned |-> FALSE, value |-> 0, error |-> "UnknownLabel"]
        ELSE [returned |-> TRUE, value |-> CHOOSE i \in hit : TRUE, error |-> "none"]

\* Semester strings, as sequences of characters
Digits == <<"0", "1", "2", "3", "4", "5", "6", "7", "8", "9">>
IsDigit(c) == \E i \in 1..Len(Digits) : Digits[i] = c
DigitValue(c) == (CHOOSE i \in 1..Len(Digits) : Digits[i] = c) - 1
AllDigits(cs) == cs # <<>> /\ \A i \in 1..Len(cs) : IsDigit(cs[i])

RECURSIVE ParseInt(_)
ParseInt(cs) ==
    IF cs = <<>> THEN 0
    ELSE ParseInt(SubSeq(cs, 1, Len(cs) - 1)) * 10 + DigitValue(cs[Len(cs)])

RECURSIVE ToChars(_)
ToChars(n) ==
    IF n < 10 THEN <<Digits[n + 1]>>
    ELSE ToChars(n \div 10) \o <<Digits[(n % 10) + 1]>>

\* the portal's text for a semester: "<startYear>-<endYear> <semesterNumber>"
FormatSemester(startYear, endYear, number) ==
    ToChars(startYear) \o <<"-">> \o ToChars(endYear) \o <<" ">> \o ToChars(number)

\* the place of the first c in cs, 0 if there is none
IndexOf(cs, c) ==
    LET at == {i \in 1..Len(cs) : cs[i] = c}
    IN  IF at = {} THEN 0 ELSE CHOOSE i \in at : \A j \in at : i <= j

NoTriple == [returned |-> FALSE, triple |-> <<>>, error |-> "none"]
Malformed == [returned |-> FALSE, triple |-> <<>>, error |-> "MalformedSemesterString"]

\* Encoder.parseSemester(text): the integer triple of a well-formed string
\* with adjacent years and a semester number in range, and
\* MalformedSemesterString for anything else
ParseSemesterAnyYears(text) ==
    LET dash == IndexOf(text, "-")
        space == IndexOf(text, " ")
    IN  IF dash = 0 \/ space < dash THEN Malformed
        ELSE LET first == SubSeq(text, 1, dash - 1)
                 second == SubSeq(text, dash + 1, space - 1)
                 third == SubSeq(text, space + 1, Len(text))
             IN  IF ~(AllDigits(first) /\ AllDigits(second) /\ AllDigits(third))
                 THEN Malformed
                 ELSE IF ParseInt(third) \notin 1..SemesterCardinality
                 THEN Malformed
                 ELSE [returned |-> TRUE, error |-> "none",
                       triple |-> <<ParseInt(first), ParseInt(second), ParseInt(third)>>]
ParseSemester(text) ==
    LET dash == IndexOf(text, "-")
        space == IndexOf(text, " ")
    IN  IF dash = 0 \/ space < dash THEN Malformed
        ELSE LET first == SubSeq(text, 1, dash - 1)
                 second == SubSeq(text, dash + 1, space - 1)
                 third == SubSeq(text, space + 1, Len(text))
             IN  IF ~(AllDigits(first) /\ AllDigits(second) /\ AllDigits(third))
                 THEN Malformed
                 ELSE IF \/ ParseInt(second) # ParseInt(first) + 1
                         \/ ParseInt(third) \notin 1..SemesterCardinality
                 THEN Malformed
                 ELSE [returned |-> TRUE, error |-> "none",
                       triple |-> <<ParseInt(first), ParseInt(second), ParseInt(third)>>]

\* the years and semester numbers written into semester strings
StartYears == (FixtureGrade + 1)..(FixtureGrade + GradeSpread)
YearGaps == 0..2
SemesterNumbers == 0..(SemesterCardinality + 1)

\* texts that are no semester string: "abc", the empty text, a missing
\* semester number, a missing start year, a letter in a year, separators
\* swapped, a trailing letter, a doubled space
OtherTexts ==
    { <<"a", "b", "c">>, <<>>,
      ToChars(2013) \o <<"-">> \o ToChars(2014),
      ToChars(2013) \o <<"-">> \o ToChars(2014) \o <<" ">>,
      <<"-">> \o ToChars(2014) \o <<" ", "2">>,
      <<"2", "0", "a", "3", "-">> \o ToChars(2014) \o <<" ", "2">>,
      ToChars(2013) \o <<" ">> \o ToChars(2014) \o <<"-", "2">>,
      FormatSemester(2013, 2014, 2) \o <<"x">>,
      ToChars(2013) \o <<"-">> \o ToChars(2014) \o <<" ", " ", "2">> }

NoEncoderCall ==
    [called |-> FALSE, grade |-> FixtureGrade, year |-> 0, semester |-> 0, id |-> 0,
     prevCalled |-> FALSE, prevYear |-> 0, prevSemester |-> 0, prevId |-> 0,
     allCalled |-> FALSE, now |-> 0, all |-> <<>>,
     dayCalled |-> FALSE, label |-> <<>>, day |-> NoValue,
     semCalled |-> FALSE, text |-> <<>>, written |-> <<>>, sem |-> NoTriple]

\* the Encoder keeps nothing between calls: only the user stays
NoCallOf(e) == [NoEncoderCall EXCEPT !.grade = e.grade]

----------------------------------------------------------------------------
(* The application *)

\* the module's cacher starts empty and `app = new Application()` runs the
\* constructor over it
Init ==
    /\ users = [id \in Ids |-> UNDEFINED]
    /\ heap = <<>>
    /\ currentUser = FindConfirmed(users, heap)
    /\ cache = [k \in Kinds |-> <<>>]
    /\ inv = IdleInv
    /\ lastRegistered = [id \in Ids |-> NULL]
    /\ enc = NoEncoderCall

register(id, password) ==
    /\ Len(heap) < MaxUsers
    /\ LET user == Len(heap) + 1
       IN  /\ heap' = Append(heap, [NewUser(id, password) EXCEPT
                        !.confirm = IF ~IsUserExist THEN "pending" ELSE "none"])
           /\ users' = CachePut(users, id, user)
           /\ lastRegistered' = [lastRegistered EXCEPT ![id] = user]
    /\ UNCHANGED <<currentUser, cache, inv, enc>>

\* user.confirm() emits its boolean: the portal accepted the credentials or not
confirmNext(user, valid) ==
    /\ heap[user].confirm = "pending"
    /\ heap' = [heap EXCEPT ![user].confirm = "done", ![user].isConfirmed = valid]
    /\ currentUser' = OnConfirmNext(currentUser, user)
    /\ UNCHANGED <<users, cache, inv, lastRegistered, enc>>

\* user.confirm() fails (no network)
confirmError(user) ==
    /\ heap[user].confirm = "pending"
    /\ heap' = [heap EXCEPT ![user].confirm = "failed"]
    /\ currentUser' = OnConfirmError(currentUser, user)
    /\ UNCHANGED <<users, cache, inv, lastRegistered, enc>>

\* searchForCourses / searchForPeople: the merged observable is built, and
\* fetcher.searchForX(option) is evaluated as merge's argument
SearchOnline(kind, option) ==
    /\ inv.mode = "none"
    /\ inv' = [IdleInv EXCEPT !.mode = "online", !.kind = kind, !.option = option,
                              !.userAtCall = IsUserExist, !.fetcherCalls = 1]
    /\ UNCHANGED <<users, heap, currentUser, cache, lastRegistered, enc>>

\* searchForCoursesInCache / searchForPeopleInCache
SearchInCacheViaFetcher(kind, option) ==
    /\ inv.mode = "none"
    /\ inv' = [IdleInv EXCEPT !.mode = "inCache", !.kind = kind, !.option = option,
                              !.userAtCall = IsUserExist,
                              !.fetcherCalls = 1, !.seekerCalls = 1]
    /\ UNCHANGED <<users, heap, currentUser, cache, lastRegistered, enc>>
SearchInCache(kind, option) ==
    /\ inv.mode = "none"
    /\ inv' = [IdleInv EXCEPT !.mode = "inCache", !.kind = kind, !.option = option,
                              !.userAtCall = IsUserExist, !.seekerCalls = 1]
    /\ UNCHANGED <<users, heap, currentUser, cache, lastRegistered, enc>>

\* searchForCoursesWithCache / searchForPeopleWithCache: both
\* this.searchForX(option) and this.searchForXInCache(option), catch's
\* argument, are evaluated when the observable is built
SearchWithCache(kind, option) ==
    /\ inv.mode = "none"
    /\ inv' = [IdleInv EXCEPT !.mode = "withCache", !.kind = kind, !.option = option,
                              !.userAtCall = IsUserExist,
                              !.fetcherCalls = 1, !.seekerCalls = 1]
    /\ UNCHANGED <<users, heap, currentUser, cache, lastRegistered, enc>>

searchForCourses(option) == SearchOnline("courses", option)
searchForCoursesInCache(option) == SearchInCache("courses", option)
searchForCoursesWithCache(option) == SearchWithCache("courses", option)
searchForPeople(option) == SearchOnline("people", option)
searchForPeopleInCache(option) == SearchInCache("people", option)
searchForPeopleWithCache(option) == SearchWithCache("people", option)

\* verify(id, password): a User of its own, outside the cache, and the
\* observable of its confirm()
verifyCachesUser(id, password) ==
    /\ inv.mode = "none"
    /\ Len(heap) < MaxUsers
    /\ heap' = Append(heap, NewUser(id, password))
    /\ users' = CachePut(users, id, Len(heap) + 1)
    /\ inv' = [IdleInv EXCEPT !.mode = "verify", !.id = id, !.userAtCall = IsUserExist]
    /\ UNCHANGED <<currentUser, cache, lastRegistered, enc>>
verify(id, password) ==
    /\ inv.mode = "none"
    /\ inv' = [IdleInv EXCEPT !.mode = "verify", !.id = id, !.userAtCall = IsUserExist]
    /\ UNCHANGED <<users, heap, currentUser, cache, lastRegistered, enc>>

\* the caller (or caller.nodifyObservable for a callback) subscribes to the
\* returned observable; the function given to Observable.create runs now
subscribe ==
    /\ inv.mode # "none"
    /\ inv.status = "none"
    /\ inv' = IF inv.mode = "inCache" THEN SeekerEmit(inv)
              ELSE IF inv.mode = "verify" THEN [inv EXCEPT !.status = "open"]
              ELSE IF ~IsUserExist
                   THEN OnError([inv EXCEPT !.status = "open", !.preFailed = TRUE],
                                AuthorizationRequired)
                   ELSE [inv EXCEPT !.status = "open", !.fetcher = "pending"]
    /\ UNCHANGED <<users, heap, currentUser, cache, lastRegistered, enc>>

\* the Fetcher's observable emits its result and completes
fetcherNext(result) ==
    /\ inv.fetcher = "pending"
    /\ result \in FetcherResults(FetcherOption(inv.option))
    /\ cache' = [cache EXCEPT ![inv.kind] = WriteThrough(@, result)]
    /\ inv' = [inv EXCEPT !.fetcher = "succeeded",
                          !.emitted = Append(@, result),
                          !.status = IF MergeCompleted(CreateCompletes, TRUE)
                                     THEN "completed" ELSE "open"]
    /\ UNCHANGED <<users, heap, currentUser, lastRegistered, enc>>

\* the Fetcher's observable fails
fetcherError ==
    /\ inv.fetcher = "pending"
    /\ inv' = OnError([inv EXCEPT !.fetcher = "failed"], NetworkFailure)
    /\ UNCHANGED <<users, heap, currentUser, cache, lastRegistered, enc>>

\* the confirm() of verify's User emits its boolean
verifyNext(valid) ==
    /\ inv.mode = "verify"
    /\ inv.status = "open"
    /\ inv' = [inv EXCEPT !.verified = IF valid THEN "valid" ELSE "invalid",
                          !.status = "completed"]
    /\ UNCHANGED <<users, heap, currentUser, cache, lastRegistered, enc>>

\* the confirm() of verify's User fails
verifyError ==
    /\ inv.mode = "verify"
    /\ inv.status = "open"
    /\ inv' = [inv EXCEPT !.status = "error", !.error = NetworkFailure]
    /\ UNCHANGED <<users, heap, currentUser, cache, lastRegistered, enc>>

\* the caller drops the observable of the last call (disposing its
\* subscription if it has one); the slot is free for the next call
dispose ==
    /\ inv.mode # "none"
    /\ inv' = IdleInv
    /\ UNCHANGED <<users, heap, currentUser, cache, lastRegistered, enc>>

Next ==
    \/ \E id \in Ids, password \in Passwords : register(id, password)
    \/ \E user \in 1..Len(heap), valid \in BOOLEAN : confirmNext(user, valid)
    \/ \E user \in 1..Len(heap) : confirmError(user)
    \/ \E option \in Options : searchForCourses(option)
    \/ \E option \in Options : searchForCoursesInCache(option)
    \/ \E option \in Options : searchForCoursesWithCache(option)
    \/ \E option \in Options : searchForPeople(option)
    \/ \E option \in Options : searchForPeopleInCache(option)
    \/ \E option \in Options : searchForPeopleWithCache(option)
    \/ \E id \in Ids, password \in Passwords : verify(id, password)
    \/ subscribe
    \/ \E valid \in BOOLEAN : verifyNext(valid)
    \/ verifyError
    \/ \E result \in FetcherResults(EmptyOption) : fetcherNext(result)
    \/ fetcherError
    \/ dispose

Spec == Init /\ [][Next]_vars

\* the Fetcher answers every live attempt it is given: it succeeds or fails
FetcherResponds == (\E result \in FetcherResults(EmptyOption) : fetcherNext(result)) \/ fetcherError
FairSpec == Spec /\ WF_vars(FetcherResponds)

----------------------------------------------------------------------------
(* The Encoder on its own: getSemester applied to bounded inputs *)

EncoderInit ==
    /\ users = [id \in Ids |-> UNDEFINED]
    /\ heap = <<>>
    /\ currentUser = NULL
    /\ cache = [k \in Kinds |-> <<>>]
    /\ inv = IdleInv
    /\ lastRegistered = [id \in Ids |-> NULL]
    /\ enc \in {[NoEncoderCall EXCEPT !.grade = g] : g \in Grades}

getSemester(year, semester) ==
    /\ enc' = [NoCallOf(enc) EXCEPT
                          !.called = TRUE, !.year = year, !.semester = semester,
                          !.id = GetSemester(year, semester, enc.grade),
                          !.prevCalled = enc.called, !.prevYear = enc.year,
                          !.prevSemester = enc.semester, !.prevId = enc.id]
    /\ UNCHANGED <<users, heap, currentUser, cache, inv, lastRegistered>>

getAllSemesters(currentYear) ==
    /\ enc' = [NoCallOf(enc) EXCEPT !.allCalled = TRUE, !.now = currentYear,
                                    !.all = GetAllSemesters(enc.grade, currentYear)]
    /\ UNCHANGED <<users, heap, currentUser, cache, inv, lastRegistered>>

parseDayofWeek(label) ==
    /\ enc' = [NoCallOf(enc) EXCEPT !.dayCalled = TRUE, !.label = label,
                                    !.day = ParseDayofWeek(label)]
    /\ UNCHANGED <<users, heap, currentUser, cache, inv, lastRegistered>>

\* parseSemester on a text; `written` is what the text was written from:
\* <<startYear, endYear, semesterNumber>>, or <<>> for a text of another shape
parseSemester(text, written) ==
    /\ enc' = [NoCallOf(enc) EXCEPT !.semCalled = TRUE, !.text = text,
                                    !.written = written, !.sem = ParseSemester(text)]
    /\ UNCHANGED <<users, heap, currentUser, cache, inv, lastRegistered>>

EncoderNext ==
    \/ \E year \in YearArguments, semester \in Semesters : getSemester(year, semester)
    \/ \E currentYear \in CurrentYears : getAllSemesters(currentYear)
    \/ \E label \in DayLabels : parseDayofWeek(label)
    \/ \E y \in StartYears, gap \in YearGaps, n \in SemesterNumbers :
          parseSemester(FormatSemester(y, y + gap, n), <<y, y + gap, n>>)
    \/ \E text \in OtherTexts : parseSemester(text, <<>>)

EncoderSpec == EncoderInit /\ [][EncoderNext]_vars

----------------------------------------------------------------------------
(* Properties *)

Last(s) == s[Len(s)]
IsPrefix(s, t) == Len(s) <= Len(t) /\ SubSeq(t, 1, Len(s)) = s

\* C1: a live search (searchForCourses, searchForPeople) called while no
\* current user is established never calls the Fetcher, and what its
\* subscriber receives is the authorization error 401.
C1_NoUserNoFetcherCall ==
    (inv.mode = "online" /\ ~inv.userAtCall) =>
        /\ inv.fetcherCalls = 0
        /\ inv.status # "none" =>
              inv.status = "error" /\ inv.error = AuthorizationRequired

\* C2: with a current user established and the Fetcher failing, what
\* searchForXWithCache(option) emits is exactly what the Seeker's search emits
\* over the same cache for the same option, and no error reaches the caller.
C2_FallbackEqualsSeeker ==
    (inv.mode = "withCache" /\ inv.fetcher = "failed") =>
        /\ inv.status = "completed"
        /\ inv.error = NULL
        /\ inv.emitted = <<SeekerSearch(inv.kind, inv.option)>>

\* C2's case: a filtering option, a cache holding a match and a non-match,
\* and the fallback has emitted the match alone
C2_Witness ==
    /\ inv.mode = "withCache"
    /\ inv.fetcher = "failed"
    /\ inv.option # EmptyOption
    /\ Len(cache[inv.kind]) = 2
    /\ inv.emitted = <<(<<inv.option>>)>>

\* C3: a failed precondition is final: searchForXWithCache subscribed with no
\* current user delivers the authorization error, never enters the fallback
\* and emits no Seeker result.
C3_PreconditionFailureIsFinal ==
    (inv.mode = "withCache" /\ inv.preFailed) =>
        /\ inv.status = "error"
        /\ inv.error = AuthorizationRequired
        /\ ~inv.fallback
        /\ inv.emitted = <<>>

\* C4: within one searchForXWithCache invocation the Seeker is not invoked
\* before the Fetcher's attempt has failed, and after a successful live
\* attempt the Seeker has not been invoked and the fallback was not entered.
C4_SeekerAfterFetcherFailure ==
    inv.mode = "withCache" =>
        /\ (inv.seekerCalls > 0 \/ inv.fallback) => inv.fetcher = "failed"
        /\ inv.fetcher = "succeeded" => (inv.seekerCalls = 0 /\ ~inv.fallback)

\* C5: every invocation that has passed the precondition (its live attempt is
\* in flight) eventually terminates, given that the Fetcher answers: the
\* stream completes or fails (or the caller has dropped it).
C5_EventuallyResolved ==
    (inv.fetcher = "pending") ~>
        (inv.status \in {"completed", "error"} \/ inv.mode = "none")

C7_EmptyFallbackIsNotError ==
    (/\ inv.mode = "withCache"
     /\ inv.fetcher = "failed"
     /\ SeekerSearch(inv.kind, inv.option) = <<>>) =>
        /\ inv.status = "completed"
        /\ inv.error = NULL
        /\ inv.emitted = <<(<<>>)>>

\* C7's case: the fallback found nothing although the cache is not empty
C7_Witness ==
    /\ inv.mode = "withCache"
    /\ inv.fetcher = "failed"
    /\ cache[inv.kind] # <<>>
    /\ inv.emitted = <<(<<>>)>>

\* C8: one(id) is the User the most recent register(id, _) returned, whatever
\* became of its confirmation, and null for an id never registered.
C8_OneReturnsLastRegistered ==
    \A id \in Ids : One(id) = lastRegistered[id]

\* C8's case: an id registered twice, the second User cached while the first
\* one's confirmation is still in flight, and another id never registered
C8_Witness ==
    /\ Len(heap) = 2
    /\ heap[1].id = heap[2].id
    /\ heap[1].confirm = "pending"
    /\ One(heap[2].id) = 2
    /\ \E id \in Ids : One(id) = NULL

\* C9: no eviction: a cached user stays cached in every step, and the value
\* under an id changes only in a register call with that id.
C9_NoEviction ==
    [][\A id \in Ids :
          /\ One(id) # NULL => One(id)' # NULL
          /\ users'[id] # users[id] => \E password \in Passwords : register(id, password)
      ]_vars

\* C9's case: a user is cached, its confirmation has failed, and a live
\* search has succeeded on behalf of another current user
C9_Witness ==
    \E id \in Ids :
        /\ One(id) # NULL
        /\ heap[One(id)].confirm = "failed"
        /\ inv.fetcher = "succeeded"

\* C10: for a user of grade g, a relative offset k below the absolute-year
\* threshold and a semester s, getSemester(k, s, user) equals
\* getSemester(g + (k - 1), s, user); for the fixture user of grade 2012 both
\* getSemester(2012, 1, user) and getSemester(1, 1, user) are 13.
C10_RelativeEqualsAbsolute ==
    /\ (enc.called /\ enc.year >= 1 /\ enc.year < AbsoluteYearThreshold) =>
          enc.id = GetSemester(enc.grade + (enc.year - 1), enc.semester, enc.grade)
    /\ (enc.called /\ enc.grade = FixtureGrade /\ enc.semester = 1
           /\ enc.year \in {1, FixtureGrade}) =>
          enc.id = FixtureSemesterId

\* C10's case: a relative offset beyond the first year, for a grade other than
\* the fixture's
C10_Witness ==
    /\ enc.called
    /\ enc.year = 3
    /\ enc.grade # FixtureGrade
    /\ enc.id = GetSemester(enc.grade + 2, enc.semester, enc.grade)

\* C11: SemesterId is a strictly order-preserving, injective encoding: of two
\* (absolute year, semester number) pairs the first precedes the second
\* lexicographically exactly if its id is the smaller one, and the id is
\* (year - baselineYear) * semesterCardinality + semesterNumber.
C11_OrderPreserving ==
    (/\ enc.called /\ enc.prevCalled
     /\ enc.year >= AbsoluteYearThreshold /\ enc.prevYear >= AbsoluteYearThreshold) =>
        /\ enc.id = (enc.year - BaselineYear) * SemesterCardinality + enc.semester
        /\ (enc.prevId < enc.id) <=>
              \/ enc.prevYear < enc.year
              \/ enc.prevYear = enc.year /\ enc.prevSemester < enc.semester
        /\ (enc.prevId = enc.id) <=>
              (enc.prevYear = enc.year /\ enc.prevSemester = enc.semester)

\* C11's case: the last semester of one year against the first of the next
C11_Witness ==
    /\ enc.called /\ enc.prevCalled
    /\ enc.prevYear = FixtureGrade /\ enc.prevSemester = SemesterCardinality
    /\ enc.year = FixtureGrade + 1 /\ enc.semester = 1
    /\ enc.prevId < enc.id

C13_DayOfWeek ==
    enc.dayCalled =>
        LET numerals == <<Yi, Er, San, Si, Wu, Liu, Ri>>
            known == {i \in 1..7 : enc.label = <<Xing, Qi, numerals[i]>>}
        IN  /\ \A i \in known :
                  enc.day.returned /\ enc.day.value = i /\ enc.day.error = "none"
            /\ enc.day.returned => enc.day.value \in 1..7
            /\ known = {} => (~enc.day.returned /\ enc.day.error = "UnknownLabel")

\* C13's case: Sunday parsed to 7
C13_Witness ==
    /\ enc.dayCalled
    /\ enc.label = <<Xing, Qi, Ri>>
    /\ enc.day.returned
    /\ enc.day.value = 7

\* C14: parseSemester is all-or-nothing: for "<startYear>-<endYear> <n>" with
\* endYear = startYear + 1 and n within the cardinality range it returns
\* exactly (startYear, endYear, n), e.g. (2013, 2014, 2) for "2013-2014 2";
\* for every other input (non-adjacent years, non-numeric text, n out of
\* range) it fails with MalformedSemesterString and returns no partial triple.
C14_ParseSemester ==
    enc.semCalled =>
        LET valid == /\ enc.written # <<>>
                     /\ enc.written[2] = enc.written[1] + 1
                     /\ enc.written[3] \in 1..SemesterCardinality
        IN  /\ valid => (/\ enc.sem.returned
                         /\ enc.sem.triple = enc.written
                         /\ enc.sem.error = "none")
            /\ ~valid => (/\ ~enc.sem.returned
                          /\ enc.sem.triple = <<>>
                          /\ enc.sem.error = "MalformedSemesterString")
            /\ enc.text = <<"2", "0", "1", "3", "-", "2", "0", "1", "4", " ", "2">> =>
                  enc.sem.triple = <<2013, 2014, 2>>

\* C14's case: the test's string parsed to its triple
C14_Witness ==
    /\ enc.semCalled
    /\ enc.text = <<"2", "0", "1", "3", "-", "2", "0", "1", "4", " ", "2">>
    /\ enc.sem.returned
    /\ enc.sem.triple = <<2013, 2014, 2>>

\* C15: the current user is always a confirmed one: whenever currentUser is
\* non-null its confirmed status flag is true, so a register whose
\* confirmation emits a negative result or fails never makes its user the
\* current user.
C15_CurrentUserIsConfirmed ==
    currentUser # NULL => heap[currentUser].isConfirmed

\* C16: the current-user reference is set exactly once: no step changes a
\* non-null currentUser to another user, whatever the interleaving of
\* register calls and confirmation completions.
C16_CurrentUserSetOnce ==
    [][currentUser # NULL => currentUser' = currentUser]_vars

\* C17: offline search is independent of identity and network: the call and
\* the subscription of searchForCoursesInCache / searchForPeopleInCache never
\* invoke the Fetcher, never raise an error (the authorization error
\* included), emit the Seeker's result whether or not a current user is
\* established, and leave the user cache, the current-user reference and the
\* record cache unchanged.
C17_OfflineIndependent ==
    [][(inv' # inv /\ inv'.mode = "inCache") =>
          /\ users' = users
          /\ currentUser' = currentUser
          /\ heap' = heap
          /\ cache' = cache
          /\ inv'.fetcherCalls = 0
          /\ inv'.fetcher = "none"
          /\ inv'.status # "error"
          /\ inv'.error = NULL
          /\ inv'.status # "none" =>
                /\ inv'.status = "completed"
                /\ inv'.emitted = <<SeekerSearch(inv'.kind, inv'.option)>>
      ]_vars

\* C17's case: an offline search called and subscribed with no current user
\* has completed with the Seeker's result
C17_Witness ==
    /\ inv.mode = "inCache"
    /\ ~inv.userAtCall
    /\ currentUser = NULL
    /\ inv.status = "completed"
    /\ inv.error = NULL
    /\ inv.fetcherCalls = 0
    /\ inv.emitted = <<SeekerSearch(inv.kind, inv.option)>>

\* C18: a non-null current user is the very object the user cache holds under
\* its own student id: one(currentUser.id) returns the current user, after
\* any sequence of register calls and confirmation completions.
C18_CurrentUserIsCached ==
    currentUser # NULL => One(heap[currentUser].id) = currentUser

\* C19: verify(id, password) changes nothing in the application state,
\* whatever the confirmation's outcome: in the call, the subscription and the
\* valid, invalid or failed completion, the user cache is unchanged (one(id)
\* returns the same value before and after, for every id) and the
\* current-user reference is unchanged.
C19_VerifyChangesNothing ==
    [][(inv' # inv /\ (inv.mode = "verify" \/ inv'.mode = "verify")) =>
          /\ users' = users
          /\ heap' = heap
          /\ currentUser' = currentUser
          /\ \A id \in Ids : One(id)' = One(id)
      ]_vars

\* C19's case: the credentials of an unregistered id were verified as valid
\* while no current user exists, and the id is still unregistered and there
\* is still no current user
C19_Witness ==
    /\ inv.mode = "verify"
    /\ inv.verified = "valid"
    /\ One(inv.id) = NULL
    /\ currentUser = NULL

====
